---- MODULE Spec2Model ----
(***************************************************************************)
(* Model of the DHT11 reporting sketch (src/unnamed/part_000): setup()     *)
(* followed by repeated executions of loop().  The observable behaviour is *)
(* the sequence of calls the sketch makes on its collaborators: delay(),   *)
(* dht.readHumidity(), dht.readTemperature() and Serial.println().         *)
(* A float is a record: NaN, or a finite value held exactly in hundredths. *)
(* A line of serial output is a sequence of tokens, a token being either a *)
(* string literal of the sketch or a formatted number.                     *)
(***************************************************************************)
EXTENDS Integers, Sequences, FiniteSets, TLC

VARIABLES pc, cycle, testTemp, testHumidity, humidity, temperature, trace

vars == <<pc, cycle, testTemp, testHumidity, humidity, temperature, trace>>

(* ---------------- bounds ---------------- *)

\* number of executions of loop() that the model follows
MaxCycles == 3

\* readings of the formatting specification range over -MaxHundredths..MaxHundredths
MaxHundredths == 130

(* ---------------- floats ---------------- *)

NaN == [nan |-> TRUE, val |-> 0]

F(h) == [nan |-> FALSE, val |-> h]

isnan(x) == x.nan

\* the values a read of the sensor returns in the main specification
\* (23.45 and 60.2, the readings of the documented example)
SensorValues == {NaN, F(2345), F(6020)}

(* ---------------- formatting ---------------- *)

Abs(n) == IF n < 0 THEN -n ELSE n

Pow10(k) == IF k = 0 THEN 1 ELSE IF k = 1 THEN 10 ELSE 100

\* A formatted number: sign, integer part, and the fractional digits as a
\* number below 10^digits.  NaN is printed as the text "nan".
Num(neg, int, frac, digits) ==
    [lit |-> "", neg |-> neg, int |-> int, frac |-> frac, digits |-> digits]

Lit(s) == [lit |-> s, neg |-> FALSE, int |-> 0, frac |-> 0, digits |-> 0]

\* the conversion without the rounding step: the digits are only cut off
FormatFloat_Truncate(x, digits) ==
    IF isnan(x) THEN Lit("nan")
    ELSE LET n    == Abs(x.val)
             unit == Pow10(2 - digits)
         IN  Num(x.val < 0, n \div 100, (n % 100) \div unit, digits)

\* Arduino's float-to-text conversion with a given number of decimal places:
\* the sign is split off, half a unit of the last place is added to the
\* magnitude, and the digits are then cut off.
FormatFloat(x, digits) ==
    IF isnan(x) THEN Lit("nan")
    ELSE LET n    == Abs(x.val)
             unit == Pow10(2 - digits)
             r    == n + (unit \div 2)
         IN  Num(x.val < 0, r \div 100, (r % 100) \div unit, digits)

\* String(value, 1)
String1(x) == FormatFloat(x, 1)

\* Serial.print(value): two decimal places
PrintFloat(x) == FormatFloat(x, 2)

(* ---------------- events ---------------- *)

Delay(c)        == [ev |-> "delay", cycle |-> c, val |-> NaN, line |-> <<>>]
ReadH(c, v)     == [ev |-> "readHumidity", cycle |-> c, val |-> v, line |-> <<>>]
ReadT(c, v)     == [ev |-> "readTemperature", cycle |-> c, val |-> v, line |-> <<>>]
Println(c, l)   == [ev |-> "println", cycle |-> c, val |-> NaN, line |-> l]

(* ---------------- setup() ---------------- *)

Init ==
    /\ pc = "boot"
    /\ cycle = 0
    /\ testTemp = NaN
    /\ testHumidity = NaN
    /\ humidity = NaN
    /\ temperature = NaN
    /\ trace = <<>>

\* Serial.begin; println("DHT11 sensor starting..."); dht.begin()
SetupBegin ==
    /\ pc = "boot"
    /\ trace' = Append(trace, Println(0, <<Lit("DHT11 sensor starting...")>>))
    /\ pc' = "setup_delay"
    /\ UNCHANGED <<cycle, testTemp, testHumidity, humidity, temperature>>

SetupDelay ==
    /\ pc = "setup_delay"
    /\ trace' = Append(trace, Delay(0))
    /\ pc' = "setup_readT"
    /\ UNCHANGED <<cycle, testTemp, testHumidity, humidity, temperature>>

SetupReadTemperature ==
    /\ pc = "setup_readT"
    /\ \E v \in SensorValues :
          /\ testTemp' = v
          /\ trace' = Append(trace, ReadT(0, v))
    /\ pc' = "setup_readH"
    /\ UNCHANGED <<cycle, testHumidity, humidity, temperature>>

SetupReadHumidity ==
    /\ pc = "setup_readH"
    /\ \E v \in SensorValues :
          /\ testHumidity' = v
          /\ trace' = Append(trace, ReadH(0, v))
    /\ pc' = "setup_check"
    /\ UNCHANGED <<cycle, testTemp, humidity, temperature>>

\* isnan(testTemp) || isnan(testHumidity)
TrialFailed(t, h) == isnan(t) \/ isnan(h)

SetupFailLines ==
    << <<Lit("Failed to initialize DHT sensor!")>>,
       <<Lit("Please check:")>>,
       <<Lit("1. Sensor is properly connected to pin 2")>>,
       <<Lit("2. 10K resistor is connected between VCC and DATA")>>,
       <<Lit("3. Power supply is stable (3.3V-5.5V)")>> >>

\* the three lines of the success branch; the degree sign of the unit is
\* written "deg"
SetupOkLines(t, h) ==
    << <<Lit("DHT11 sensor initialized successfully!")>>,
       <<Lit("Initial temperature: "), PrintFloat(t), Lit("deg C")>>,
       <<Lit("Initial humidity: "), PrintFloat(h), Lit("%")>> >>

PrintAll(c, lines) == [i \in 1..Len(lines) |-> Println(c, lines[i])]

\* the failure branch ending in an endless loop instead of returning
SetupFail_Halt ==
    /\ pc = "setup_check"
    /\ TrialFailed(testTemp, testHumidity)
    /\ trace' = trace \o PrintAll(0, SetupFailLines)
    /\ pc' = "halted"
    /\ testTemp' = NaN
    /\ testHumidity' = NaN
    /\ UNCHANGED <<cycle, humidity, temperature>>

\* the failure branch printing the failure notice only
SetupFail_Short ==
    /\ pc = "setup_check"
    /\ TrialFailed(testTemp, testHumidity)
    /\ trace' = Append(trace, Println(0, SetupFailLines[1]))
    /\ pc' = "loop_delay"
    /\ testTemp' = NaN
    /\ testHumidity' = NaN
    /\ UNCHANGED <<cycle, humidity, temperature>>

\* the locals of setup() go out of scope on return
SetupFail ==
    /\ pc = "setup_check"
    /\ TrialFailed(testTemp, testHumidity)
    /\ trace' = trace \o PrintAll(0, SetupFailLines)
    /\ pc' = "loop_delay"
    /\ testTemp' = NaN
    /\ testHumidity' = NaN
    /\ UNCHANGED <<cycle, humidity, temperature>>

SetupOk ==
    /\ pc = "setup_check"
    /\ ~TrialFailed(testTemp, testHumidity)
    /\ trace' = trace \o PrintAll(0, SetupOkLines(testTemp, testHumidity))
    /\ pc' = "loop_delay"
    /\ testTemp' = NaN
    /\ testHumidity' = NaN
    /\ UNCHANGED <<cycle, humidity, temperature>>

(* ---------------- loop() ---------------- *)

\* whether the most recent acquisition (the two most recent reads) returned
\* an invalid value
LastReadsFailed ==
    LET reads == SelectSeq(trace, LAMBDA e : e.ev \in {"readHumidity", "readTemperature"})
        n     == Len(reads)
    IN  n >= 2 /\ (isnan(reads[n].val) \/ isnan(reads[n - 1].val))

\* loop() giving up once two acquisitions in a row have failed
LoopDelay_GiveUp ==
    /\ pc = "loop_delay"
    /\ cycle < MaxCycles
    /\ ~(cycle >= 1 /\ LastReadsFailed)
    /\ cycle' = cycle + 1
    /\ trace' = Append(trace, Delay(cycle + 1))
    /\ pc' = "loop_readH"
    /\ UNCHANGED <<testTemp, testHumidity, humidity, temperature>>

LoopDelay ==
    /\ pc = "loop_delay"
    /\ cycle < MaxCycles
    /\ cycle' = cycle + 1
    /\ trace' = Append(trace, Delay(cycle + 1))
    /\ pc' = "loop_readH"
    /\ UNCHANGED <<testTemp, testHumidity, humidity, temperature>>

\* the temperature read skipped when the humidity read has already failed
LoopReadHumidity_ShortCircuit ==
    /\ pc = "loop_readH"
    /\ \E v \in SensorValues :
          /\ humidity' = v
          /\ trace' = Append(trace, ReadH(cycle, v))
          /\ pc' = IF isnan(v) THEN "loop_check" ELSE "loop_readT"
    /\ UNCHANGED <<cycle, testTemp, testHumidity, temperature>>

LoopReadHumidity ==
    /\ pc = "loop_readH"
    /\ \E v \in SensorValues :
          /\ humidity' = v
          /\ trace' = Append(trace, ReadH(cycle, v))
    /\ pc' = "loop_readT"
    /\ UNCHANGED <<cycle, testTemp, testHumidity, temperature>>

LoopReadTemperature ==
    /\ pc = "loop_readT"
    /\ \E v \in SensorValues :
          /\ temperature' = v
          /\ trace' = Append(trace, ReadT(cycle, v))
    /\ pc' = "loop_check"
    /\ UNCHANGED <<cycle, testTemp, testHumidity, humidity>>

\* the check with only the first operand of the disjunction
ReadFailed_HumidityOnly(h, t) == isnan(h)

\* the check with && in place of ||
ReadFailed_And(h, t) == isnan(h) /\ isnan(t)

\* isnan(humidity) || isnan(temperature)
ReadFailed(h, t) == isnan(h) \/ isnan(t)

LoopFailLines ==
    << <<Lit("Failed to read from DHT sensor!")>>,
       <<Lit("Retrying in 2 seconds...")>> >>

\* the two values written under each other's key
JsonData_Swapped(t, h) ==
    ((<<Lit("{")>>
        \o <<Lit("\"temperature\":"), String1(h), Lit(",")>>)
        \o <<Lit("\"humidity\":"), String1(t)>>)
        \o <<Lit("}")>>

\* jsonData as built by the four concatenations of loop()
JsonData(t, h) ==
    ((<<Lit("{")>>
        \o <<Lit("\"temperature\":"), String1(t), Lit(",")>>)
        \o <<Lit("\"humidity\":"), String1(h)>>)
        \o <<Lit("}")>>

\* the early return replaced by an immediate new attempt, without the delay
LoopFail_NoDelay ==
    /\ pc = "loop_check"
    /\ ReadFailed(humidity, temperature)
    /\ trace' = trace \o PrintAll(cycle, LoopFailLines)
    /\ pc' = IF cycle < MaxCycles THEN "loop_readH" ELSE "loop_delay"
    /\ cycle' = IF cycle < MaxCycles THEN cycle + 1 ELSE cycle
    /\ humidity' = NaN
    /\ temperature' = NaN
    /\ UNCHANGED <<testTemp, testHumidity>>

LoopFail ==
    /\ pc = "loop_check"
    /\ ReadFailed(humidity, temperature)
    /\ trace' = trace \o PrintAll(cycle, LoopFailLines)
    /\ pc' = "loop_delay"
    /\ humidity' = NaN
    /\ temperature' = NaN
    /\ UNCHANGED <<cycle, testTemp, testHumidity>>

\* a data line that carries a sequence number kept across cycles
LoopEmit_Numbered ==
    /\ pc = "loop_check"
    /\ ~ReadFailed(humidity, temperature)
    /\ trace' = Append(trace, Println(cycle,
                   JsonData(temperature, humidity) \o <<Num(FALSE, cycle, 0, 0)>>))
    /\ pc' = "loop_delay"
    /\ humidity' = NaN
    /\ temperature' = NaN
    /\ UNCHANGED <<cycle, testTemp, testHumidity>>

LoopEmit ==
    /\ pc = "loop_check"
    /\ ~ReadFailed(humidity, temperature)
    /\ trace' = Append(trace, Println(cycle, JsonData(temperature, humidity)))
    /\ pc' = "loop_delay"
    /\ humidity' = NaN
    /\ temperature' = NaN
    /\ UNCHANGED <<cycle, testTemp, testHumidity>>

Next ==
    \/ SetupBegin
    \/ SetupDelay
    \/ SetupReadTemperature
    \/ SetupReadHumidity
    \/ SetupFail
    \/ SetupOk
    \/ LoopDelay
    \/ LoopReadHumidity
    \/ LoopReadTemperature
    \/ LoopFail
    \/ LoopEmit

Spec == Init /\ [][Next]_vars

\* the runtime calls loop() again whenever it returns, and every statement of
\* the sketch terminates
LiveSpec == Spec /\ WF_vars(Next)

(* ---------------- formatting specification ---------------- *)

\* readings in hundredths, the documented example, and a failed read
FmtValues ==
    {F(x) : x \in (0 - MaxHundredths)..MaxHundredths} \cup {NaN, F(2345), F(6020)}

\* the first execution of loop() has read (t, h) after a failed trial read
InitFmt ==
    \E t \in FmtValues, h \in FmtValues :
        /\ pc = "loop_check"
        /\ cycle = 1
        /\ testTemp = NaN
        /\ testHumidity = NaN
        /\ humidity = h
        /\ temperature = t
        /\ trace = (<<Println(0, <<Lit("DHT11 sensor starting...")>>), Delay(0),
                      ReadT(0, NaN), ReadH(0, NaN)>>
                    \o PrintAll(0, SetupFailLines))
                    \o <<Delay(1), ReadH(1, h), ReadT(1, t)>>

NextFmt ==
    \/ LoopFail
    \/ LoopEmit

SpecFmt == InitFmt /\ [][NextFmt]_vars

(* ---------------- reading the trace ---------------- *)

SetupPcs == {"setup_delay", "setup_readT", "setup_readH", "setup_check"}

LoopPcs == {"loop_delay", "loop_readH", "loop_readT", "loop_check"}

Lifecycle ==
    IF pc = "boot" THEN "Uninitialized"
    ELSE IF pc \in SetupPcs THEN "Initializing"
    ELSE IF pc \in LoopPcs THEN "Cycling"
    ELSE "Stopped"

SetupDone == Lifecycle \notin {"Uninitialized", "Initializing"}

\* cycle 0 is setup(); cycle c >= 1 is the c-th execution of loop()
CycleDone(c) == c >= 1 /\ (c < cycle \/ (c = cycle /\ pc = "loop_delay"))

IsRead(e) == e.ev \in {"readHumidity", "readTemperature"}

CycleEvents(c) == SelectSeq(trace, LAMBDA e : e.cycle = c)

EventsOf(c, kind) == SelectSeq(trace, LAMBDA e : e.cycle = c /\ e.ev = kind)

HasReading(c) ==
    Len(EventsOf(c, "readHumidity")) = 1 /\ Len(EventsOf(c, "readTemperature")) = 1

HumidityOf(c) == EventsOf(c, "readHumidity")[1].val

TemperatureOf(c) == EventsOf(c, "readTemperature")[1].val

ValidReading(c) ==
    HasReading(c) /\ ~isnan(HumidityOf(c)) /\ ~isnan(TemperatureOf(c))

InvalidReading(c) ==
    HasReading(c) /\ (isnan(HumidityOf(c)) \/ isnan(TemperatureOf(c)))

\* the lines written in cycle c after its last sensor read
LinesAfterReads(c) ==
    LET ev    == CycleEvents(c)
        reads == {i \in 1..Len(ev) : IsRead(ev[i])}
        last  == IF reads = {} THEN 0
                 ELSE CHOOSE i \in reads : \A j \in reads : j <= i
        tail  == SelectSeq(SubSeq(ev, last + 1, Len(ev)), LAMBDA e : e.ev = "println")
    IN  [i \in 1..Len(tail) |-> tail[i].line]

LinesOf(c) ==
    LET pr == EventsOf(c, "println") IN [i \in 1..Len(pr) |-> pr[i].line]

\* a data line is a line that opens an object; every other line is a log line
IsDataLine(l) == Len(l) > 0 /\ l[1] = Lit("{")

DataLinesOf(c) == SelectSeq(LinesOf(c), IsDataLine)

LogLinesOf(c) == SelectSeq(LinesOf(c), LAMBDA l : ~IsDataLine(l))

(* ---------------- C1 ---------------- *)

\* C1: every completed cycle whose reading is valid has written exactly one
\* data line, and that line is {"temperature":<T>,"humidity":<H>} with <T> the
\* temperature and <H> the humidity read in that cycle, in this key order.
C1_ValidCycleEmitsOneDataLine ==
    \A c \in 1..cycle :
        (CycleDone(c) /\ ValidReading(c)) =>
            DataLinesOf(c) =
                << <<Lit("{"),
                     Lit("\"temperature\":"), String1(TemperatureOf(c)), Lit(","),
                     Lit("\"humidity\":"), String1(HumidityOf(c)),
                     Lit("}")>> >>

C1_Witness ==
    \E c \in 1..cycle :
        /\ CycleDone(c)
        /\ ValidReading(c)
        /\ TemperatureOf(c) # HumidityOf(c)
        /\ Len(DataLinesOf(c)) = 1

(* ---------------- C2 ---------------- *)

\* C2 as stated: every completed cycle whose reading is invalid has written no
\* data line and exactly one log line.
C2_InvalidCycleOneLogLine ==
    \A c \in 1..cycle :
        (CycleDone(c) /\ InvalidReading(c)) =>
            (Len(DataLinesOf(c)) = 0 /\ Len(LogLinesOf(c)) = 1)

\* C2 amended: every completed cycle whose reading is invalid has written no
\* data line and exactly two log lines, "Failed to read from DHT sensor!" and
\* "Retrying in 2 seconds...".
C2_InvalidCycleTwoLogLines ==
    \A c \in 1..cycle :
        (CycleDone(c) /\ InvalidReading(c)) =>
            /\ Len(DataLinesOf(c)) = 0
            /\ LogLinesOf(c) = << <<Lit("Failed to read from DHT sensor!")>>,
                                  <<Lit("Retrying in 2 seconds...")>> >>

C2_Witness ==
    \E c \in 1..cycle :
        /\ CycleDone(c)
        /\ HasReading(c)
        /\ ~isnan(HumidityOf(c))
        /\ isnan(TemperatureOf(c))
        /\ Len(LogLinesOf(c)) = 2

(* ---------------- C3 ---------------- *)

\* C3: every data line on the output channel was written in a cycle of loop()
\* (never in setup) after both reads of that same cycle returned valid values.
C3_DataLineOnlyFromValidReading ==
    \A i \in 1..Len(trace) :
        (trace[i].ev = "println" /\ IsDataLine(trace[i].line)) =>
            /\ trace[i].cycle >= 1
            /\ \E j \in 1..(i - 1), k \in 1..(i - 1) :
                  /\ trace[j].ev = "readHumidity"
                  /\ trace[k].ev = "readTemperature"
                  /\ trace[j].cycle = trace[i].cycle
                  /\ trace[k].cycle = trace[i].cycle
                  /\ ~isnan(trace[j].val)
                  /\ ~isnan(trace[k].val)
            /\ \A j \in 1..Len(trace) :
                  (IsRead(trace[j]) /\ trace[j].cycle = trace[i].cycle)
                      => ~isnan(trace[j].val)

C3_Witness ==
    /\ ValidReading(0)
    /\ Len(DataLinesOf(0)) = 0
    /\ \E c \in 1..cycle : InvalidReading(c) /\ CycleDone(c)
    /\ \E i \in 1..Len(trace) : trace[i].ev = "println" /\ IsDataLine(trace[i].line)

(* ---------------- C4 ---------------- *)

LifecycleStep ==
    \/ Lifecycle' = Lifecycle
    \/ Lifecycle = "Uninitialized" /\ Lifecycle' = "Initializing"
    \/ Lifecycle = "Initializing" /\ Lifecycle' = "Cycling"

\* C4: the lifecycle only moves Uninitialized -> Initializing -> Cycling, never
\* leaves Cycling, and every run reaches Cycling whatever the trial read
\* returned.
C4_SetupNeverHalts ==
    /\ [][LifecycleStep]_vars
    /\ <>(Lifecycle = "Cycling")

C4_Witness ==
    /\ Lifecycle = "Cycling"
    /\ HasReading(0)
    /\ isnan(TemperatureOf(0))
    /\ ~isnan(HumidityOf(0))

(* ---------------- C5 ---------------- *)

\* C5 as stated: after a trial read of (invalid, invalid), setup has written
\* four log lines after the read, and the process is cycling.
C5_FourRemediationLines ==
    (SetupDone /\ HasReading(0) /\ isnan(TemperatureOf(0)) /\ isnan(HumidityOf(0))) =>
        (Len(LinesAfterReads(0)) = 4 /\ Lifecycle = "Cycling")

\* C5 amended: after a trial read of (invalid, invalid), setup has written
\* five log lines after the read (the failure notice, "Please check:" and the
\* three numbered hints), the process is cycling, and the first cycle can start.
C5_FiveRemediationLines ==
    (SetupDone /\ HasReading(0) /\ isnan(TemperatureOf(0)) /\ isnan(HumidityOf(0))) =>
        /\ LinesAfterReads(0) =
              << <<Lit("Failed to initialize DHT sensor!")>>,
                 <<Lit("Please check:")>>,
                 <<Lit("1. Sensor is properly connected to pin 2")>>,
                 <<Lit("2. 10K resistor is connected between VCC and DATA")>>,
                 <<Lit("3. Power supply is stable (3.3V-5.5V)")>> >>
        /\ Lifecycle = "Cycling"
        /\ (pc = "loop_delay" /\ cycle = 0) => ENABLED LoopDelay

C5_Witness ==
    /\ HasReading(0)
    /\ isnan(TemperatureOf(0))
    /\ isnan(HumidityOf(0))
    /\ Len(LinesAfterReads(0)) = 5
    /\ cycle >= 1
    /\ HasReading(1)

(* ---------------- C6 ---------------- *)

\* tok shows the value x (in hundredths) with one fractional digit, rounded to
\* the nearest tenth, a tie going to the tenth of larger magnitude
OneDecimalHalfUp(tok, x) ==
    /\ tok.lit = ""
    /\ tok.digits = 1
    /\ tok.frac \in 0..9
    /\ tok.int >= 0
    /\ tok.neg = (x < 0)
    /\ LET m == 10 * (tok.int * 10 + tok.frac)
       IN  /\ Abs(m - Abs(x)) <= 5
           /\ (Abs(m - Abs(x)) = 5) => (m > Abs(x))

C7_SameReadingSameLine ==
    \A i \in 1..Len(trace), j \in 1..Len(trace) :
        LET a == trace[i]
            b == trace[j]
        IN  ( /\ a.ev = "println" /\ IsDataLine(a.line)
              /\ b.ev = "println" /\ IsDataLine(b.line)
              /\ HasReading(a.cycle) /\ HasReading(b.cycle)
              /\ TemperatureOf(a.cycle) = TemperatureOf(b.cycle)
              /\ HumidityOf(a.cycle) = HumidityOf(b.cycle) )
            => a.line = b.line

C7_Witness ==
    \E c \in 1..cycle, d \in 1..cycle :
        /\ d >= c + 2
        /\ CycleDone(d)
        /\ ValidReading(c)
        /\ ValidReading(d)
        /\ InvalidReading(c + 1)
        /\ TemperatureOf(c) = TemperatureOf(d)
        /\ HumidityOf(c) = HumidityOf(d)
        /\ Len(DataLinesOf(c)) = 1
        /\ DataLinesOf(c) = DataLinesOf(d)

(* ---------------- C8 ---------------- *)

\* C8: however many acquisitions have failed in a row (the trial read
\* included), a pending cycle goes on to attempt both reads, and every
\* completed cycle with a valid reading has written its data line.
C8_RetryWithoutLimit ==
    /\ [](\A c \in 1..cycle :
            (CycleDone(c) /\ ValidReading(c)) => Len(DataLinesOf(c)) = 1)
    /\ \A n \in 0..(MaxCycles - 1) :
          (pc = "loop_delay" /\ cycle = n /\ LastReadsFailed)
              ~> (pc = "loop_check" /\ cycle = n + 1)

C8_Witness ==
    \E c \in 3..cycle :
        /\ CycleDone(c)
        /\ ValidReading(c)
        /\ \A d \in 0..(c - 1) : InvalidReading(d)
        /\ Len(DataLinesOf(c)) = 1

(* ---------------- C9 ---------------- *)

\* C9: every acquisition directly follows a delay: each read in the trace comes
\* right after a delay, or right after the other read of the same acquisition
\* which itself came right after a delay.
C9_DelayBeforeEveryAcquisition ==
    \A i \in 1..Len(trace) :
        IsRead(trace[i]) =>
            /\ i >= 2
            /\ \/ trace[i - 1].ev = "delay"
               \/ /\ i >= 3
                  /\ IsRead(trace[i - 1])
                  /\ trace[i - 1].ev # trace[i].ev
                  /\ trace[i - 1].cycle = trace[i].cycle
                  /\ trace[i - 2].ev = "delay"

C9_Witness ==
    /\ cycle >= 2
    /\ HasReading(0)
    /\ HasReading(1)
    /\ InvalidReading(1)
    /\ HasReading(2)

(* ---------------- C10 ---------------- *)

\* C10: the events of a cycle are, in order, the delay, the humidity read, the
\* temperature read, and only then lines of output; a completed cycle has made
\* both reads (also when the humidity read failed) and written output.
C10_OrderWithinCycle ==
    \A c \in 1..cycle :
        LET ev == CycleEvents(c)
        IN  /\ \A i \in 1..Len(ev) :
                  ev[i].ev = (IF i = 1 THEN "delay"
                              ELSE IF i = 2 THEN "readHumidity"
                              ELSE IF i = 3 THEN "readTemperature"
                              ELSE "println")
            /\ CycleDone(c) => (Len(ev) >= 4 /\ LinesOf(c) = LinesAfterReads(c))
            /\ (pc = "loop_check" /\ c = cycle) => Len(ev) = 3

C10_Witness ==
    \E c \in 1..cycle :
        /\ CycleDone(c)
        /\ HasReading(c)
        /\ isnan(HumidityOf(c))
        /\ ~isnan(TemperatureOf(c))
        /\ Len(CycleEvents(c)) = 5

====
